---- MODULE Spec2Model ----
(***************************************************************************)
(* Model of load_data.py: the extract / transform / load pipeline that     *)
(* reads the CP CSV and DSSTox XLSX files and imports them into the        *)
(* CP_DSSTox SQLite database.                                              *)
(*                                                                         *)
(* Strings are sequences of one-character strings, so that split('|') and  *)
(* strip() are computed and not assumed.  A cell of a DataFrame is a       *)
(* record [kind, s, n, e]: kind "str" carries the characters s, kind       *)
(* "null" is None/NaN, kind "float" is the number n * 10^-e.               *)
(***************************************************************************)
EXTENDS Integers, Sequences, FiniteSets, TLC

(* ------------------------------ bounds --------------------------------- *)
\* number of DSSToxDump<i>.xlsx files enumerated by parse_file_paths
\* (range(1, 14) in the source; the model is parameterised by the count)
NumDumps == 2
\* rows of every extracted record set
NumRows == 2
\* how many deviations from the nominal run one run may meet: a required file
\* that is absent, a record set with a deviating cell, an INSERT that raises
MaxDeviations == 1
\* number of tables in a mapping handed directly to import_data_to_DB
MaxDirectTables == 3

(* ------------------------------ strings -------------------------------- *)
Whitespace == {" "}

RECURSIVE lstrip(_)
lstrip(s) == IF s # <<>> /\ Head(s) \in Whitespace THEN lstrip(Tail(s)) ELSE s

RECURSIVE rstrip(_)
rstrip(s) ==
    IF s # <<>> /\ s[Len(s)] \in Whitespace
    THEN rstrip(SubSeq(s, 1, Len(s) - 1))
    ELSE s

\* str.strip()
strip(s) == rstrip(lstrip(s))

\* str.split(sep): the tokens between the separators, at least one token
RECURSIVE split(_, _)
split(s, sep) ==
    IF \A i \in 1..Len(s) : s[i] # sep
    THEN <<s>>
    ELSE LET k == CHOOSE i \in 1..Len(s) :
                      s[i] = sep /\ \A j \in 1..(i - 1) : s[j] # sep
         IN  <<SubSeq(s, 1, k - 1)>> \o split(SubSeq(s, k + 1, Len(s)), sep)

(* ------------------------------- cells --------------------------------- *)
Str(s) == [kind |-> "str", s |-> s, n |-> 0, e |-> 0]
None == [kind |-> "null", s |-> <<>>, n |-> 0, e |-> 0]
Float(n, e) == [kind |-> "float", s |-> <<>>, n |-> n, e |-> e]

EmptyStr == Str(<<>>)
NA == Str(<<"N", "A">>)

\* pd.notnull / pd.isnull
notnull(c) == c.kind # "null"

\* str(value) as explode_identifiers applies it to a cell
str(c) == IF c.kind = "null" THEN <<"N", "o", "n", "e">> ELSE c.s

\* a value that must never be stored as a literal string
IsEmptyOrNA(c) == c.kind = "str" /\ c.s \in {<<>>, <<"N", "A">>}

(* --------------------------- tables, columns --------------------------- *)
\* the destination tables import_table_data dispatches on
RecognizedTables ==
    {"document_dictionary", "chemical_dictionary", "list_presence_dictionary",
     "PUC_dictionary", "functional_use_dictionary", "DSSTox", "QSUR_data",
     "functional_use_data", "product_composition_data", "list_presence_data",
     "HHE_data"}

UnknownTable == "no_such_table"

\* the tables of the sink: the recognized ones and Identifier
DbTables == RecognizedTables \cup {"Identifier"}

\* the column list of each INSERT statement
Columns(t) ==
    CASE t = "DSSTox" ->
           <<"DTXSID", "PREFERRED_NAME", "CASRN", "INCHIKEY", "IUPAC_NAME",
             "SMILES", "MOLECULAR_FORMULA", "AVERAGE_MASS", "MONOISOTOPIC_MASS",
             "QSAR_READY_SMILES", "MS_READY_SMILES", "IDENTIFIER">>
      [] t = "Identifier" -> <<"IDENTIFIER", "CASRN", "ALTERNATIVE_IDENTIFIER">>
      [] t = "chemical_dictionary" ->
           <<"chemical_id", "raw_chem_name", "raw_casrn", "preferred_name",
             "preferred_casrn", "DTXSID", "curation_level">>
      [] t = "QSUR_data" ->
           <<"DTXSID", "preferred_name", "preferred_casrn",
             "harmonized_function", "probability">>
      [] t = "document_dictionary" ->
           <<"document_id", "title", "subtitle", "doc_date">>
      [] t = "product_composition_data" ->
           <<"document_id", "product_id", "chemical_id", "functional_use_id",
             "puc_id", "classification", "prod_title", "brand_name",
             "raw_min_comp", "raw_central_comp", "raw_max_comp",
             "clean_min_wf", "clean_central_wf", "clean_max_wf">>
      [] t = "list_presence_dictionary" ->
           <<"list_presence_id", "name", "definition", "kind">>
      [] t = "list_presence_data" ->
           <<"document_id", "chemical_id", "list_presence_id">>
      [] t = "HHE_data" -> <<"document_id", "chemical_id">>
      [] t = "functional_use_dictionary" ->
           <<"chemical_id", "functional_use_id", "report_funcuse",
             "oecd_function">>
      [] t = "functional_use_data" ->
           <<"document_id", "chemical_id", "functional_use_id">>
      [] t = "PUC_dictionary" ->
           <<"puc_id", "gen_cat", "prod_fam", "prod_type", "description",
             "puc_code", "kind">>
      [] OTHER -> <<"value">>

\* position of column c in the rows of table t
ColIndex(t, c) == CHOOSE i \in 1..Len(Columns(t)) : Columns(t)[i] = c

\* df[c] = df[c].apply(f): f applied to column c of every row
ApplyColumn(t, df, c, f(_)) ==
    [r \in 1..Len(df) |->
        [i \in 1..Len(df[r]) |->
            IF i = ColIndex(t, c) THEN f(df[r][i]) ELSE df[r][i]]]

\* a normalization that forgets the 'NA' token
replace_empty_with_null(df) ==
    [r \in 1..Len(df) |->
        [i \in 1..Len(df[r]) |-> IF df[r][i] = EmptyStr THEN None ELSE df[r][i]]]

(* -------------------------- null normalization ------------------------- *)
replace_empty_na_with_null(df) ==
    [r \in 1..Len(df) |->
        [i \in 1..Len(df[r]) |-> IF IsEmptyOrNA(df[r][i]) THEN None ELSE df[r][i]]]

(* ------------------------- identifier explosion ------------------------ *)
\* the Identifier rows one DSSTox row contributes (the inner loop)
identifier_rows_of(row) ==
    LET identifiers == split(str(row[ColIndex("DSSTox", "IDENTIFIER")]), "|")
        casrn == strip(identifiers[1])
    IN  [k \in 1..(Len(identifiers) - 1) |->
            <<Str(casrn), Str(casrn), Str(strip(identifiers[k + 1]))>>]

RECURSIVE identifier_rows(_)
identifier_rows(df) ==
    IF df = <<>> THEN <<>>
    ELSE identifier_rows_of(Head(df)) \o identifier_rows(Tail(df))

\* the first token without the strip()
first_identifier_untrimmed(c) == Str(split(c.s, "|")[1])

\* lambda x: x.split('|')[0].strip()
first_identifier(c) == Str(strip(split(c.s, "|")[1]))

\* x.split raises AttributeError on a value that is not a str (None, NaN, a number)
explode_raises(df) ==
    \E r \in 1..Len(df) : df[r][ColIndex("DSSTox", "IDENTIFIER")].kind # "str"

\* explode_identifiers: raised, or the pair (df, identifier_df)
explode_identifiers(df) ==
    IF explode_raises(df)
    THEN [raised |-> TRUE, df |-> <<>>, identifier_df |-> <<>>]
    ELSE [raised |-> FALSE,
          df |-> ApplyColumn("DSSTox", df, "IDENTIFIER", first_identifier),
          identifier_df |-> identifier_rows(df)]

(* -------------------------- date canonicalization ---------------------- *)
Digits == <<"0", "1", "2", "3", "4", "5", "6", "7", "8", "9">>
IsDigit(c) == \E i \in 1..10 : Digits[i] = c
DigitVal(c) == (CHOOSE i \in 1..10 : Digits[i] = c) - 1
DigitChar(n) == Digits[n + 1]

\* the number a string of digits denotes
RECURSIVE NumValTo(_, _)
NumValTo(s, k) == IF k = 0 THEN 0 ELSE 10 * NumValTo(s, k - 1) + DigitVal(s[k])
NumVal(s) == NumValTo(s, Len(s))

AllDigits(s) == \A i \in 1..Len(s) : IsDigit(s[i])

Upper == <<"A", "B", "C", "D", "E", "F", "G", "H", "I", "J", "K", "L", "M",
           "N", "O", "P", "Q", "R", "S", "T", "U", "V", "W", "X", "Y", "Z">>
Lower == <<"a", "b", "c", "d", "e", "f", "g", "h", "i", "j", "k", "l", "m",
           "n", "o", "p", "q", "r", "s", "t", "u", "v", "w", "x", "y", "z">>
lower_char(c) == IF \E i \in 1..26 : Upper[i] = c
                 THEN Lower[CHOOSE i \in 1..26 : Upper[i] = c] ELSE c
lower(s) == [i \in 1..Len(s) |-> lower_char(s[i])]

\* calendar.month_name, lower case (strptime matches names ignoring case)
MonthNames ==
    << <<"j","a","n","u","a","r","y">>, <<"f","e","b","r","u","a","r","y">>,
       <<"m","a","r","c","h">>, <<"a","p","r","i","l">>, <<"m","a","y">>,
       <<"j","u","n","e">>, <<"j","u","l","y">>, <<"a","u","g","u","s","t">>,
       <<"s","e","p","t","e","m","b","e","r">>, <<"o","c","t","o","b","e","r">>,
       <<"n","o","v","e","m","b","e","r">>, <<"d","e","c","e","m","b","e","r">> >>
\* calendar.month_abbr
MonthAbbrs == [i \in 1..12 |-> SubSeq(MonthNames[i], 1, 3)]

\* the priority list of parse_date; a directive is a two-character string
date_formats ==
    << <<"%Y", "-", "%m", "-", "%d">>, <<"%d", "-", "%m", "-", "%Y">>,
       <<"%d", "-", "%b", "-", "%y">>, <<"%d", "-", "%b", "-", "%Y">>,
       <<"%d", "-", "%B", "-", "%Y">>, <<"%B", "-", "%y">>, <<"%b", "-", "%y">>,
       <<"%B", " ", "%d", ",", " ", "%Y">>, <<"%B", " ", "%Y">>, <<"%Y">>,
       <<"%d", "/", "%m", "/", "%Y">>, <<"%m", "/", "%d", "/", "%Y">>,
       <<"%d", " ", "%B", " ", "%Y">>, <<"%m", ".", "%d", ".", "%Y">> >>

\* the strings one directive accepts at the head of s, with the field it sets:
\*   %d  3[0-1]|[1-2]\d|0[1-9]|[1-9]| [1-9]      %m  1[0-2]|0[1-9]|[1-9]
\*   %Y  \d\d\d\d    %y  \d\d (00-68 -> 20xx, 69-99 -> 19xx)    %b %B  names
DirectiveMatches(dir, s) ==
    LET pre(k) == SubSeq(s, 1, k)
        numeric(k) == Len(s) >= k /\ AllDigits(pre(k))
    IN  CASE dir = "%d" ->
               {[len |-> k, field |-> "d", val |-> NumVal(pre(k))] :
                   k \in {j \in 1..2 : numeric(j) /\ NumVal(pre(j)) \in 1..31
                                        /\ (j = 1 => pre(1) # <<"0">>)}}
               \cup {[len |-> 2, field |-> "d", val |-> DigitVal(s[2])] :
                       k \in {j \in {2} : Len(s) >= 2 /\ s[1] = " " /\ IsDigit(s[2])
                                          /\ s[2] # "0"}}
          [] dir = "%m" ->
               {[len |-> k, field |-> "m", val |-> NumVal(pre(k))] :
                   k \in {j \in 1..2 : numeric(j) /\ NumVal(pre(j)) \in 1..12
                                        /\ (j = 1 => pre(1) # <<"0">>)}}
          [] dir = "%Y" ->
               {[len |-> 4, field |-> "Y", val |-> NumVal(pre(4))] :
                   k \in {j \in {4} : numeric(j)}}
          [] dir = "%y" ->
               {[len |-> 2, field |-> "Y",
                 val |-> IF NumVal(pre(2)) <= 68 THEN 2000 + NumVal(pre(2))
                         ELSE 1900 + NumVal(pre(2))] :
                   k \in {j \in {2} : numeric(j)}}
          [] dir = "%b" ->
               {[len |-> 3, field |-> "m", val |-> i] :
                   i \in {j \in 1..12 : Len(s) >= 3 /\ lower(pre(3)) = MonthAbbrs[j]}}
          [] dir = "%B" ->
               {[len |-> Len(MonthNames[i]), field |-> "m", val |-> i] :
                   i \in {j \in 1..12 : Len(s) >= Len(MonthNames[j])
                                         /\ lower(pre(Len(MonthNames[j]))) = MonthNames[j]}}
          [] OTHER -> {}

IsDirective(tok) == tok \in {"%d", "%m", "%Y", "%y", "%b", "%B"}

\* every way the whole of s matches fmt: the set of field assignments.
\* (The rest of the string and the fields are bound through a set, so that
\* each is computed once.)
RECURSIVE strptime_matches(_, _, _)
strptime_matches(fmt, s, acc) ==
    IF fmt = <<>> THEN (IF s = <<>> THEN {acc} ELSE {})
    ELSE IF IsDirective(Head(fmt))
    THEN UNION {strptime_matches(Tail(fmt), next[1], next[2]) :
                   next \in {<<SubSeq(s, m.len + 1, Len(s)),
                               [acc EXCEPT ![m.field] = m.val]>> :
                                 m \in DirectiveMatches(Head(fmt), s)}}
    ELSE IF Head(fmt) \in Whitespace
    THEN \* a blank of the format is \s+
         UNION {strptime_matches(Tail(fmt), rest, acc) :
                   rest \in {SubSeq(s, k + 1, Len(s)) :
                                k \in {j \in 1..Len(s) :
                                          \A i \in 1..j : s[i] \in Whitespace}}}
    ELSE IF s # <<>> /\ s[1] = Head(fmt)
    THEN UNION {strptime_matches(Tail(fmt), rest, acc) : rest \in {Tail(s)}}
    ELSE {}

IsLeap(y) == y % 4 = 0 /\ (y % 100 # 0 \/ y % 400 = 0)
DaysInMonth(y, m) ==
    IF m = 2 THEN (IF IsLeap(y) THEN 29 ELSE 28)
    ELSE IF m \in {4, 6, 9, 11} THEN 30 ELSE 31

\* the dates datetime accepts (MINYEAR is 1)
ValidDate(f) == f.Y >= 1 /\ f.d <= DaysInMonth(f.Y, f.m)

\* datetime.strptime(s, fmt): the set of dates it can return; empty = ValueError
strptime(s, fmt) ==
    {f \in strptime_matches(fmt, s, [Y |-> 1900, m |-> 1, d |-> 1]) : ValidDate(f)}

\* the decimal digits of n, without leading zeros
RECURSIVE Decimal(_)
Decimal(n) == IF n < 10 THEN <<DigitChar(n)>>
              ELSE Append(Decimal(n \div 10), DigitChar(n % 10))

\* strftime("%Y-%m-%d").  %m and %d are two digits.  %Y is handed to the C
\* library: it writes a year below 1000 with four digits on some platforms
\* (zero_pad) and without leading zeros on others (glibc).
strftime(f, zero_pad) ==
    (IF zero_pad
     THEN <<DigitChar(f.Y \div 1000), DigitChar((f.Y \div 100) % 10),
            DigitChar((f.Y \div 10) % 10), DigitChar(f.Y % 10)>>
     ELSE Decimal(f.Y))
    \o <<"-", DigitChar(f.m \div 10), DigitChar(f.m % 10), "-",
         DigitChar(f.d \div 10), DigitChar(f.d % 10)>>

\* for fmt in date_formats, from the i-th on: the first format that parses
\* returns; None after the last
RECURSIVE try_formats(_, _, _)
try_formats(s, i, zero_pad) ==
    IF i > Len(date_formats) THEN None
    ELSE IF strptime(s, date_formats[i]) = {} THEN try_formats(s, i + 1, zero_pad)
    ELSE Str(strftime(CHOOSE f \in strptime(s, date_formats[i]) : TRUE, zero_pad))

\* parse_date: a value without strip() raises AttributeError in every
\* iteration, which is caught: None
parse_date(c, zero_pad) ==
    IF c.kind # "str" THEN None
    ELSE CHOOSE out \in {try_formats(s, 1, zero_pad) : s \in {strip(c.s)}} : TRUE

\* lambda x: parse_date(x) if pd.notnull(x) else None
convert_date_cell(c, zero_pad) == IF notnull(c) THEN parse_date(c, zero_pad) ELSE None

convert_dates(t, df, date_column, zero_pad) ==
    ApplyColumn(t, df, date_column, LAMBDA x : convert_date_cell(x, zero_pad))

(* --------------------- percentage-aware float parsing ------------------ *)
\* n * 10^-e without trailing zeros in the fraction
RECURSIVE normal_float(_, _)
normal_float(n, e) ==
    IF n = 0 THEN Float(0, 0)
    ELSE IF e > 0 /\ n % 10 = 0 THEN normal_float(n \div 10, e - 1)
    ELSE Float(n, e)

remove_char(s, ch) == SelectSeq(s, LAMBDA x : x # ch)

\* float(s) for decimal literals: blanks around, a sign, digits with at most
\* one point and at least one digit.  raised = ValueError.  (Exponents,
\* underscores and the inf/nan spellings are outside the model's alphabet.)
float_of(s0) ==
    LET parse(s) ==
            LET neg == s # <<>> /\ s[1] = "-"
                signed == s # <<>> /\ s[1] \in {"-", "+"}
                from == IF signed THEN 2 ELSE 1
                points == {i \in from..Len(s) : s[i] = "."}
                wellformed == /\ Cardinality(points) <= 1
                              /\ \E i \in from..Len(s) : IsDigit(s[i])
                              /\ \A i \in from..Len(s) : IsDigit(s[i]) \/ s[i] = "."
                e == IF points = {} THEN 0 ELSE Len(s) - (CHOOSE i \in points : TRUE)
                digs == SelectSeq(SubSeq(s, from, Len(s)), IsDigit)
            IN  IF ~wellformed THEN [raised |-> TRUE, v |-> None]
                ELSE [raised |-> FALSE,
                      v |-> normal_float((IF neg THEN -1 ELSE 1) * NumVal(digs), e)]
    IN  CHOOSE r \in {parse(s) : s \in {strip(s0)}} : TRUE

\* str(value) of a float cell is not needed: the reader yields strings or nulls
to_float(c) ==
    IF ~notnull(c) THEN None
    ELSE IF c.kind = "float" THEN c
    ELSE LET conv(value_str) ==
                 IF \E i \in 1..Len(value_str) : value_str[i] = "%"
                 THEN LET pct(r) == IF r.raised THEN None
                                    ELSE normal_float(r.v.n, r.v.e + 2)
                      IN  CHOOSE v \in {pct(r) : r \in {float_of(remove_char(value_str, "%"))}} : TRUE
                 ELSE LET plain(r) == IF r.raised THEN None ELSE r.v
                      IN  CHOOSE v \in {plain(r) : r \in {float_of(value_str)}} : TRUE
         IN  CHOOSE v \in {conv(s) : s \in {strip(c.s)}} : TRUE

composition_columns == <<"raw_min_comp", "raw_central_comp", "raw_max_comp">>

convert_compositions(t, df) ==
    [r \in 1..Len(df) |->
        [i \in 1..Len(df[r]) |->
            IF \E k \in 1..Len(composition_columns) :
                   i = ColIndex(t, composition_columns[k])
            THEN to_float(df[r][i]) ELSE df[r][i]]]

(* ------------------------------ the sink ------------------------------- *)
\* one sqlite3 connection: db holds the committed rows of every table,
\* pending the rows inserted in the open transaction
EmptyDb == [t \in DbTables |-> <<>>]

\* conn.commit(): every row of the open transaction becomes durable
Commit(database, pend) == [t \in DbTables |-> database[t] \o pend[t]]

(* --------------------------- path discovery ---------------------------- *)
\* key order of the mapping built by parse_file_paths
ProdOrder ==
    <<"DSSTox", "document_dictionary", "chemical_dictionary",
      "list_presence_data", "PUC_dictionary", "functional_use_dictionary",
      "QSUR_data", "functional_use_data", "product_composition_data",
      "list_presence_dictionary", "HHE_data">>

\* key order of the mapping built by parse_file_paths_for_test
TestOrder ==
    <<"DSSTox", "document_dictionary", "chemical_dictionary",
      "list_presence_dictionary", "PUC_dictionary", "functional_use_dictionary",
      "QSUR_data", "functional_use_data", "product_composition_data",
      "list_presence_data", "HHE_data">>

\* a file is <<table, i>>: DSSToxDump<i>.xlsx or the one file of a table
ProdPaths ==
    [k \in 1..Len(ProdOrder) |->
        [table |-> ProdOrder[k],
         paths |-> IF ProdOrder[k] = "DSSTox" THEN [i \in 1..NumDumps |-> i]
                   ELSE <<1>>]]

TestPaths == [k \in 1..Len(TestOrder) |-> [table |-> TestOrder[k], paths |-> <<1>>]]

FilesOf(fp) ==
    UNION {{<<fp[k].table, fp[k].paths[i]>> : i \in 1..Len(fp[k].paths)} :
              k \in 1..Len(fp)}

RemoveAt(s, i) == SubSeq(s, 1, i - 1) \o SubSeq(s, i + 1, Len(s))

\* for file_path in paths: if not os.path.exists(file_path): paths.remove(file_path)
\* the list iterator advances by index while the list shrinks under it
RECURSIVE verify_paths(_, _, _, _)
verify_paths(t, paths, i, absent) ==
    IF i > Len(paths) THEN paths
    ELSE IF <<t, paths[i]>> \in absent
    THEN verify_paths(t, RemoveAt(paths, i), i + 1, absent)
    ELSE verify_paths(t, paths, i + 1, absent)

\* the mapping after the verification loop, and whether exit(1) was reached
verified(fp, absent) ==
    [k \in 1..Len(fp) |->
        [table |-> fp[k].table,
         paths |-> verify_paths(fp[k].table, fp[k].paths, 1, absent)]]

verify_exits(fp, absent) ==
    \E k \in 1..Len(fp) : verified(fp, absent)[k].paths = <<>>

(* ---------------------------- record sets ------------------------------ *)
X == Str(<<"x">>)

\* a well-formed cell of each column
NominalCell(c) ==
    CASE c = "doc_date" -> Str(<<"2", "0", "2", "0">>)
      [] c = "IDENTIFIER" -> Str(<<"5">>)
      [] c \in {"raw_min_comp", "raw_central_comp", "raw_max_comp"} -> Str(<<"5">>)
      [] OTHER -> X

NominalRow(t) == [i \in 1..Len(Columns(t)) |-> NominalCell(Columns(t)[i])]
NominalFrame(t) == [r \in 1..NumRows |-> NominalRow(t)]

\* the columns of a table whose first-row cell may deviate, and the deviations
VaryColumns(t) ==
    CASE t = "DSSTox" -> {"IDENTIFIER"}
      [] t = "document_dictionary" -> {"doc_date"}
      [] t = "product_composition_data" -> {"raw_min_comp", "raw_max_comp"}
      [] OTHER -> {Columns(t)[Len(Columns(t))]}

SpecialValues(c) ==
    CASE c = "IDENTIFIER" ->
           {Str(<<"5", "|", "N", "A">>), Str(<<"5", "|">>),
            Str(<<" ", "5", "|", " ", "7">>), NA, None}
      [] c = "doc_date" ->
           {NA, Str(<<"0", "1", "-", "0", "2", "-", "2", "0", "2", "0">>)}
      [] c \in {"raw_min_comp", "raw_max_comp"} -> {EmptyStr, Str(<<"4", "5", "%">>)}
      [] OTHER -> {EmptyStr, NA, None}

SpecialFrames(t) ==
    {[NominalFrame(t) EXCEPT ![1][ColIndex(t, c)] = v] :
        <<c, v>> \in UNION {{<<c2, v2>> : v2 \in SpecialValues(c2)} : c2 \in VaryColumns(t)}}

(* ------------------------------- state --------------------------------- *)
VARIABLES
    pc,           \* "start", "parse", "extract", "load", "exited", "returned"
    mode,         \* "none", "prod" (--TEST no), "test" (--TEST yes), "direct"
    missing,      \* the files absent from the data directory
    file,         \* the file load_file is reading
    file_paths,   \* the mapping returned by parse_file_paths(_for_test)
    data,         \* extract_data's data: <<[table, dfs]>> in key order
    df_list,      \* extract_data's df_list for the table being read
    ti, di,       \* import_data_to_DB: position in data and in df_list
    df,           \* the record set last handed to import_table_data
    db, pending,  \* the sink: committed rows, rows of the open transaction
    attempted,    \* the tables the load phase has started, in order
    log,          \* the messages printed, in order
    exit_status,  \* -1 while running, else the status of exit()
    norm_calls,   \* calls of replace_empty_na_with_null so far
    import_calls, \* calls of import_table_data so far
    exploded,     \* what the last call of explode_identifiers returned
    deviations    \* absent files, deviating record sets, raising INSERTs so far

\* MaxLen bounds the strings explode_identifiers and to_float are applied to
MaxLen == 3

vars == <<pc, mode, missing, file, file_paths, data, df_list, ti, di, df, db, pending,
          attempted, log, exit_status, norm_calls, import_calls, exploded, deviations>>

NotExploded == [raised |-> FALSE, df |-> <<>>, identifier_df |-> <<>>]

\* the value of file while load_file is not reading one
NoFile == [ext |-> "", exists |-> FALSE, bytes |-> <<>>, sheet |-> <<>>]

Init ==
    /\ pc = "start"
    /\ mode = "none"
    /\ missing \in {S \in SUBSET FilesOf(ProdPaths) : Cardinality(S) <= MaxDeviations}
    /\ file_paths = <<>>
    /\ data = <<>>
    /\ df_list = <<>>
    /\ ti = 1
    /\ di = 1
    /\ df = <<>>
    /\ db = EmptyDb
    /\ pending = EmptyDb
    /\ attempted = <<>>
    /\ log = <<>>
    /\ exit_status = -1
    /\ norm_calls = 0
    /\ import_calls = 0
    /\ exploded = NotExploded
    /\ file = NoFile
    /\ deviations = Cardinality(missing)

Exit(status) == pc' = "exited" /\ exit_status' = status

(* ------------------------------- main ---------------------------------- *)
\* main: argument parsing; --TEST yes enters test_program
Main ==
    /\ pc = "start"
    /\ \E test_bool \in BOOLEAN : mode' = IF test_bool THEN "test" ELSE "prod"
    /\ pc' = "parse"
    /\ UNCHANGED <<missing, file, file_paths, data, df_list, ti, di, df, db, pending,
                   attempted, log, exit_status, norm_calls, import_calls,
                   deviations, exploded>>

InitialPaths == IF mode = "test" THEN TestPaths ELSE ProdPaths

\* parse_file_paths / parse_file_paths_for_test return; create_database follows
ParseFilePaths ==
    /\ pc = "parse"
    /\ ~verify_exits(InitialPaths, missing)
    /\ file_paths' = verified(InitialPaths, missing)
    /\ pc' = "extract"
    /\ UNCHANGED <<mode, missing, file, data, df_list, ti, di, df, db, pending,
                   attempted, log, exit_status, norm_calls, import_calls,
                   deviations, exploded>>

\* some table is left without a path: exit(1)
ParseFilePathsExit ==
    /\ pc = "parse"
    /\ verify_exits(InitialPaths, missing)
    /\ Exit(1)
    /\ UNCHANGED <<mode, missing, file, file_paths, data, df_list, ti, di, df, db,
                   pending, attempted, log, norm_calls, import_calls, deviations, exploded>>

(* ---------------------------- extraction ------------------------------- *)
\* the table and the file extract_data is about to read
ExTable == file_paths[Len(data) + 1].table
ExPaths == file_paths[Len(data) + 1].paths
ExFile == <<ExTable, ExPaths[Len(df_list) + 1]>>

\* load_file returns a non-empty record set; it is appended to df_list, and at
\* the last path of the table df_list is stored in data.  After the last table
\* main opens the connection and enters import_data_to_DB.
ExtractFile ==
    /\ pc = "extract"
    /\ ExFile \notin missing
    /\ \E frame \in {NominalFrame(ExTable)} \cup
                    (IF deviations < MaxDeviations THEN SpecialFrames(ExTable) ELSE {}) :
          LET new_list == Append(df_list, frame)
              table_done == Len(new_list) = Len(ExPaths)
              all_done == table_done /\ Len(data) + 1 = Len(file_paths)
          IN  /\ deviations' = IF frame = NominalFrame(ExTable) THEN deviations
                               ELSE deviations + 1
              /\ df_list' = IF table_done THEN <<>> ELSE new_list
              /\ data' = IF table_done
                         THEN Append(data, [table |-> ExTable, dfs |-> new_list])
                         ELSE data
              /\ pc' = IF all_done THEN "load" ELSE "extract"
    /\ UNCHANGED <<mode, missing, file, file_paths, ti, di, df, db, pending, attempted,
                   log, exit_status, norm_calls, import_calls, exploded>>

\* an extraction that keeps an empty record set and goes on
ExtractEmptyContinues ==
    /\ pc = "extract"
    /\ ExFile \notin missing
    /\ LET new_list == Append(df_list, <<>>)
           table_done == Len(new_list) = Len(ExPaths)
           all_done == table_done /\ Len(data) + 1 = Len(file_paths)
       IN  /\ df_list' = IF table_done THEN <<>> ELSE new_list
           /\ data' = IF table_done
                      THEN Append(data, [table |-> ExTable, dfs |-> new_list])
                      ELSE data
           /\ pc' = IF all_done THEN "load" ELSE "extract"
    /\ UNCHANGED <<mode, missing, file, file_paths, ti, di, df, db, pending, attempted,
                   log, exit_status, norm_calls, import_calls, exploded,
                   deviations>>

\* load_file returns a record set without rows: df.empty, exit(1)
ExtractEmpty ==
    /\ pc = "extract"
    /\ ExFile \notin missing
    /\ Exit(1)
    /\ UNCHANGED <<mode, missing, file, file_paths, data, df_list, ti, di, df, db,
                   pending, attempted, log, norm_calls, import_calls, deviations, exploded>>

\* load_file cannot read the file (absent, corrupt, no encoding decodes it):
\* it prints the error and calls exit(1)
ExtractReadFails ==
    /\ pc = "extract"
    /\ log' = Append(log, [msg |-> "read error", table |-> ExTable])
    /\ Exit(1)
    /\ UNCHANGED <<mode, missing, file, file_paths, data, df_list, ti, di, df, db,
                   pending, attempted, norm_calls, import_calls, deviations, exploded>>

(* ------------------------------ loading -------------------------------- *)
\* names a caller may use as keys of the mapping it hands to import_data_to_DB
DirectNames == {"chemical_dictionary", "HHE_data", UnknownTable}

RECURSIVE DistinctSeqs(_, _)
DistinctSeqs(S, n) ==
    IF n = 0 THEN {<<>>}
    ELSE {<<>>} \cup
         UNION {{<<x>> \o s : s \in DistinctSeqs(S \ {x}, n - 1)} : x \in S}

\* import_data_to_DB called with a mapping of the caller's own making
DirectCall ==
    /\ pc = "start"
    /\ missing = {}
    /\ \E names \in DistinctSeqs(DirectNames, MaxDirectTables) \ {<<>>} :
          data' = [k \in 1..Len(names) |->
                      [table |-> names[k], dfs |-> <<NominalFrame(names[k])>>]]
    /\ mode' = "direct"
    /\ pc' = "load"
    /\ UNCHANGED <<missing, file, file_paths, df_list, ti, di, df, db, pending,
                   attempted, log, exit_status, norm_calls, import_calls,
                   deviations, exploded>>

\* the loop variables of import_data_to_DB
table_name == data[ti].table
raw_df == data[ti].dfs[di]

\* line 42: df = replace_empty_na_with_null(df)
normalized_df == replace_empty_na_with_null(raw_df)

Rows(t, rows) == [k \in 1..Len(rows) |-> <<t, rows[k]>>]

\* the import strategy of a table: whether its transform raises, and the
\* INSERTs it executes, in order, before its commit (zero_pad: see strftime)
strategy(t, d, zero_pad) ==
    CASE t = "DSSTox" ->
           LET ex == explode_identifiers(d)
           IN  [raised |-> ex.raised,
                inserts |-> Rows("DSSTox", ex.df) \o Rows("Identifier", ex.identifier_df)]
      [] t = "document_dictionary" ->
           [raised |-> FALSE, inserts |-> Rows(t, convert_dates(t, d, "doc_date", zero_pad))]
      [] t = "product_composition_data" ->
           [raised |-> FALSE, inserts |-> Rows(t, convert_compositions(t, d))]
      [] OTHER -> [raised |-> FALSE, inserts |-> Rows(t, d)]

\* what the strategy can do on the platforms the program runs on; only the
\* strategy of document_dictionary renders dates
strategies(t, d) ==
    IF t = "document_dictionary" THEN {strategy(t, d, zp) : zp \in BOOLEAN}
    ELSE {strategy(t, d, FALSE)}

\* cursor.execute for every INSERT of the list, in order: each row joins the
\* open transaction of its table
ExecuteAll(pend, inserts) ==
    [t \in DbTables |->
        LET mine == SelectSeq(inserts, LAMBDA x : x[1] = t)
        IN  pend[t] \o [k \in 1..Len(mine) |-> mine[k][2]]]

Loading == pc = "load" /\ ti <= Len(data)

\* lines 42-43: normalization, then the call of import_table_data
CallImport ==
    /\ df' = normalized_df
    /\ norm_calls' = norm_calls + 1
    /\ import_calls' = import_calls + 1
    /\ attempted' = IF di = 1 THEN Append(attempted, table_name) ELSE attempted
    /\ exploded' = IF table_name = "DSSTox" THEN explode_identifiers(normalized_df) ELSE exploded

NextTable == ti' = ti + 1 /\ di' = 1

\* one record set is transformed, inserted and committed; the success message
ImportOk ==
    /\ Loading
    /\ table_name \in RecognizedTables
    /\ CallImport
    /\ \E st \in strategies(table_name, normalized_df) :
           /\ ~st.raised
           /\ db' = Commit(db, ExecuteAll(pending, st.inserts))
           /\ pending' = EmptyDb
    /\ log' = Append(log, [msg |-> "imported", table |-> table_name])
    /\ IF di < Len(data[ti].dfs) THEN ti' = ti /\ di' = di + 1 ELSE NextTable
    /\ UNCHANGED <<pc, mode, missing, file, file_paths, data, df_list, exit_status,
                   deviations>>

\* a handler that reports the error and then ends the run
ImportInsertRaisesAborts ==
    /\ Loading
    /\ table_name \in RecognizedTables
    /\ deviations < MaxDeviations
    /\ CallImport
    /\ \E st \in strategies(table_name, normalized_df) :
           /\ ~st.raised
           /\ \E k \in 1..Len(st.inserts) :
                 pending' = ExecuteAll(pending, SubSeq(st.inserts, 1, k - 1))
    /\ deviations' = deviations + 1
    /\ log' = Append(log, [msg |-> "error", table |-> table_name])
    /\ Exit(1)
    /\ UNCHANGED <<mode, missing, file, file_paths, data, df_list, ti, di, db>>

\* the k-th INSERT of the record set raises: the rows before it stay in the
\* open transaction, the handler prints the error, the next table follows
ImportInsertRaises ==
    /\ Loading
    /\ table_name \in RecognizedTables
    /\ deviations < MaxDeviations
    /\ CallImport
    /\ \E st \in strategies(table_name, normalized_df) :
           /\ ~st.raised
           /\ \E k \in 1..Len(st.inserts) :
                 pending' = ExecuteAll(pending, SubSeq(st.inserts, 1, k - 1))
    /\ deviations' = deviations + 1
    /\ log' = Append(log, [msg |-> "error", table |-> table_name])
    /\ NextTable
    /\ UNCHANGED <<pc, mode, missing, file, file_paths, data, df_list, db, exit_status>>

\* the transform of the strategy raises before any INSERT
ImportTransformRaises ==
    /\ Loading
    /\ table_name \in RecognizedTables
    /\ CallImport
    /\ \E st \in strategies(table_name, normalized_df) : st.raised
    /\ log' = Append(log, [msg |-> "error", table |-> table_name])
    /\ NextTable
    /\ UNCHANGED <<pc, mode, missing, file, file_paths, data, df_list, db, pending,
                   exit_status, deviations>>

\* a handler that also catches the exit request of an unrecognized table
ImportUnknownTableSwallowed ==
    /\ Loading
    /\ table_name \notin RecognizedTables
    /\ df' = normalized_df
    /\ norm_calls' = norm_calls + 1
    /\ import_calls' = import_calls + 1
    /\ attempted' = IF di = 1 THEN Append(attempted, table_name) ELSE attempted
    /\ log' = Append(Append(log, [msg |-> "not imported", table |-> table_name]),
                     [msg |-> "error", table |-> table_name])
    /\ NextTable
    /\ UNCHANGED <<pc, mode, missing, file, file_paths, data, df_list, db, pending,
                   exit_status, exploded, deviations>>

\* import_table_data's else branch: exit(1).  SystemExit is no Exception, so
\* it leaves the with block, which rolls the open transaction back
ImportUnknownTable ==
    /\ Loading
    /\ table_name \notin RecognizedTables
    /\ df' = normalized_df
    /\ norm_calls' = norm_calls + 1
    /\ import_calls' = import_calls + 1
    /\ attempted' = IF di = 1 THEN Append(attempted, table_name) ELSE attempted
    /\ log' = Append(log, [msg |-> "not imported", table |-> table_name])
    /\ pending' = EmptyDb
    /\ Exit(1)
    /\ UNCHANGED <<mode, missing, file, file_paths, data, df_list, ti, di, db, deviations, exploded>>

\* a main that turns a logged import error into a failing exit status
FinishLoadStrict ==
    /\ pc = "load"
    /\ ti > Len(data)
    /\ db' = Commit(db, pending)
    /\ pending' = EmptyDb
    /\ IF mode = "direct"
       THEN pc' = "returned" /\ UNCHANGED <<log, exit_status>>
       ELSE /\ log' = Append(log, [msg |-> "completed", table |-> ""])
            /\ Exit(IF \E i \in 1..Len(log) : log[i].msg = "error" THEN 1 ELSE 0)
    /\ UNCHANGED <<mode, missing, file, file_paths, data, df_list, ti, di, df,
                   attempted, norm_calls, import_calls, exploded, deviations>>

\* the loop is over: the with block commits; main prints and calls exit(0)
FinishLoad ==
    /\ pc = "load"
    /\ ti > Len(data)
    /\ db' = Commit(db, pending)
    /\ pending' = EmptyDb
    /\ IF mode = "direct"
       THEN pc' = "returned" /\ UNCHANGED <<log, exit_status>>
       ELSE /\ log' = Append(log, [msg |-> "completed", table |-> ""])
            /\ Exit(0)
    /\ UNCHANGED <<mode, missing, file, file_paths, data, df_list, ti, di, df,
                   attempted, norm_calls, import_calls, exploded, deviations>>

Next ==
    \/ Main
    \/ ParseFilePaths
    \/ ParseFilePathsExit
    \/ ExtractFile
    \/ ExtractEmpty
    \/ ExtractReadFails
    \/ DirectCall
    \/ ImportOk
    \/ ImportInsertRaises
    \/ ImportTransformRaises
    \/ ImportUnknownTable
    \/ FinishLoad

Spec == Init /\ [][Next]_vars

(* ---------------- explode_identifiers on arbitrary strings -------------- *)
ExplodeAlphabet == {"5", "7", "|", " "}

RECURSIVE Strings(_)
Strings(n) ==
    IF n = 0 THEN {<<>>}
    ELSE Strings(n - 1) \cup
         {Append(s, c) : s \in {u \in Strings(n - 1) : Len(u) = n - 1},
                         c \in ExplodeAlphabet}

DSSToxRow(identifier) ==
    [NominalRow("DSSTox") EXCEPT ![ColIndex("DSSTox", "IDENTIFIER")] = Str(identifier)]

\* a second row with three tokens, blanks around the last
SecondRows == {<<"7", "|", "5", "|", " ", "5", " ">>, <<"7">>}

ExplodeInputs ==
    {<<DSSToxRow(s)>> : s \in Strings(MaxLen)} \cup
    {<<DSSToxRow(s), DSSToxRow(u)>> : s \in Strings(MaxLen), u \in SecondRows}

InitExplode ==
    /\ pc = "explode"
    /\ mode = "none"
    /\ missing = {}
    /\ file_paths = <<>>
    /\ \E frame \in ExplodeInputs : data = <<[table |-> "DSSTox", dfs |-> <<frame>>]>>
    /\ df_list = <<>>
    /\ ti = 1
    /\ di = 1
    /\ df = <<>>
    /\ db = EmptyDb
    /\ pending = EmptyDb
    /\ attempted = <<>>
    /\ log = <<>>
    /\ exit_status = -1
    /\ norm_calls = 0
    /\ import_calls = 0
    /\ exploded = NotExploded
    /\ file = NoFile
    /\ deviations = 0

\* one call explode_identifiers(df); the argument is updated in place
ExplodeCall ==
    /\ pc = "explode"
    /\ exploded' = explode_identifiers(raw_df)
    /\ df' = IF exploded'.raised THEN raw_df ELSE exploded'.df
    /\ pc' = "exploded"
    /\ UNCHANGED <<mode, missing, file, file_paths, data, df_list, ti, di, db, pending,
                   attempted, log, exit_status, norm_calls, import_calls,
                   deviations>>

SpecExplode == InitExplode /\ [][ExplodeCall]_vars

(* ------------------- convert_dates on free-form strings ----------------- *)
\* MaxBlanks bounds the blanks put around a date string
MaxBlanks == 1

\* the pieces date strings are assembled from: days and months, years, month
\* names, and a piece no pattern accepts
DateParts ==
    {<<"0", "1">>, <<"0", "2">>, <<"1", "3">>, <<"3", "1">>, <<"2">>,
     <<"2", "0", "2", "0">>, <<"0", "9", "9", "9">>, <<"2", "0">>,
     <<"F", "e", "b">>, <<"f", "e", "b", "r", "u", "a", "r", "y">>, <<"x">>}
DateSeps == {<<"-">>, <<"/">>, <<".">>, <<" ">>}

DateStrings ==
    DateParts
    \cup {a \o s \o b : a \in DateParts, s \in DateSeps, b \in DateParts}
    \cup {a \o s \o b \o u \o c :
            a \in DateParts, s \in DateSeps, b \in DateParts, u \in DateSeps,
            c \in DateParts}
    \cup {<<"F", "e", "b", "r", "u", "a", "r", "y", " ", "2", ",", " ",
            "2", "0", "2", "0">>, <<>>}

Blanks(k) == [i \in 1..k |-> " "]

\* the values a doc_date cell can hold when convert_dates is called
DateCells ==
    {Str(Blanks(k) \o s \o Blanks(k)) : s \in DateStrings, k \in 0..MaxBlanks}
    \cup {None, Float(5, 0)}

\* a document row whose title holds the same value as its doc_date
DateRow(c) ==
    [NominalRow("document_dictionary") EXCEPT
        ![ColIndex("document_dictionary", "title")] = c,
        ![ColIndex("document_dictionary", "doc_date")] = c]

DateInputs == {<<DateRow(c), NominalRow("document_dictionary")>> : c \in DateCells}

InitDates ==
    /\ pc = "dates"
    /\ mode = "none"
    /\ missing = {}
    /\ file_paths = <<>>
    /\ \E frame \in DateInputs :
          data = <<[table |-> "document_dictionary", dfs |-> <<frame>>]>>
    /\ df_list = <<>>
    /\ ti = 1
    /\ di = 1
    /\ df = <<>>
    /\ db = EmptyDb
    /\ pending = EmptyDb
    /\ attempted = <<>>
    /\ log = <<>>
    /\ exit_status = -1
    /\ norm_calls = 0
    /\ import_calls = 0
    /\ exploded = NotExploded
    /\ file = NoFile
    /\ deviations = 0

\* one call convert_dates(df, "doc_date")
ConvertDatesCall ==
    /\ pc = "dates"
    /\ \E zero_pad \in BOOLEAN :
          df' = convert_dates("document_dictionary", raw_df, "doc_date", zero_pad)
    /\ pc' = "converted"
    /\ UNCHANGED <<mode, missing, file, file_paths, data, df_list, ti, di, db, pending,
                   attempted, log, exit_status, norm_calls, import_calls,
                   deviations, exploded>>

SpecDates == InitDates /\ [][ConvertDatesCall]_vars

(* ---------------- convert_compositions on arbitrary strings ------------- *)
FloatAlphabet == {"4", "5", "%", ".", "a", " "}

RECURSIVE FloatStrings(_)
FloatStrings(n) ==
    IF n = 0 THEN {<<>>}
    ELSE FloatStrings(n - 1) \cup
         {Append(s, c) : s \in {u \in FloatStrings(n - 1) : Len(u) = n - 1},
                         c \in FloatAlphabet}

\* the values a composition cell can hold when convert_compositions is called
FloatCells ==
    {Str(s) : s \in FloatStrings(MaxLen)}
    \cup {Str(<<"0", ".", "4", "5">>), Str(<<"-", "4", "5", "%">>),
          Str(<<"a", "b", "c">>), None, Float(45, 2)}

\* a composition row: the value in its first column and in raw_min_comp,
\* another in raw_max_comp, a percentage in raw_central_comp
FloatRow(c, d) ==
    [NominalRow("product_composition_data") EXCEPT
        ![1] = c,
        ![ColIndex("product_composition_data", "raw_min_comp")] = c,
        ![ColIndex("product_composition_data", "raw_central_comp")] =
            Str(<<"4", "5", "%">>),
        ![ColIndex("product_composition_data", "raw_max_comp")] = d]

FloatInputs ==
    {<<FloatRow(c, d)>> : c \in FloatCells, d \in {None, Str(<<"4", "%", "5">>)}}

InitFloats ==
    /\ pc = "floats"
    /\ mode = "none"
    /\ missing = {}
    /\ file_paths = <<>>
    /\ \E frame \in FloatInputs :
          data = <<[table |-> "product_composition_data", dfs |-> <<frame>>]>>
    /\ df_list = <<>>
    /\ ti = 1
    /\ di = 1
    /\ df = <<>>
    /\ db = EmptyDb
    /\ pending = EmptyDb
    /\ attempted = <<>>
    /\ log = <<>>
    /\ exit_status = -1
    /\ norm_calls = 0
    /\ import_calls = 0
    /\ exploded = NotExploded
    /\ file = NoFile
    /\ deviations = 0

\* one call convert_compositions(df)
ConvertCompositionsCall ==
    /\ pc = "floats"
    /\ df' = convert_compositions("product_composition_data", raw_df)
    /\ pc' = "composed"
    /\ UNCHANGED <<mode, missing, file, file_paths, data, df_list, ti, di, db, pending,
                   attempted, log, exit_status, norm_calls, import_calls,
                   deviations, exploded>>

SpecFloats == InitFloats /\ [][ConvertCompositionsCall]_vars

(* ------------------------------ load_file ------------------------------ *)
\* MaxBytes bounds the length of a delimited-text file
MaxBytes == 3

\* the candidate encodings, in the order of the loop
encodings_latin_first == <<"ISO-8859-1", "utf-8", "Windows-1252">>
encodings == <<"utf-8", "ISO-8859-1", "Windows-1252">>

\* the bytes a file is made of: A, line feed, 0xC3, 0xA9, 0x81
ByteAlphabet == {65, 10, 195, 169, 129}

RECURSIVE ByteStrings(_)
ByteStrings(n) ==
    IF n = 0 THEN {<<>>}
    ELSE ByteStrings(n - 1) \cup
         {Append(s, b) : s \in {u \in ByteStrings(n - 1) : Len(u) = n - 1},
                         b \in ByteAlphabet}

\* bytes.decode("utf-8"): the code points, or UnicodeDecodeError.  A byte
\* below 0x80 is itself; 0xC2..0xDF opens a two-byte sequence that a byte of
\* 0x80..0xBF must close.  (Longer sequences are outside the byte alphabet.)
RECURSIVE utf8_decode(_)
utf8_decode(b) ==
    IF b = <<>> THEN [raised |-> FALSE, text |-> <<>>]
    ELSE IF b[1] < 128
    THEN LET rest == utf8_decode(Tail(b))
         IN  [raised |-> rest.raised, text |-> <<b[1]>> \o rest.text]
    ELSE IF b[1] \in 194..223 /\ Len(b) >= 2 /\ b[2] \in 128..191
    THEN LET rest == utf8_decode(SubSeq(b, 3, Len(b)))
         IN  [raised |-> rest.raised,
              text |-> <<(b[1] - 192) * 64 + (b[2] - 128)>> \o rest.text]
    ELSE [raised |-> TRUE, text |-> <<>>]

\* bytes.decode("ISO-8859-1"): every byte is the code point of its value
latin1_decode(b) == [raised |-> FALSE, text |-> b]

\* bytes.decode("Windows-1252"): 0x81, 0x8D, 0x8F, 0x90 and 0x9D are undefined;
\* 0x80..0x9F otherwise map to punctuation (0x80 is U+20AC: the only one kept)
cp1252_decode(b) ==
    IF \E i \in 1..Len(b) : b[i] \in {129, 141, 143, 144, 157}
    THEN [raised |-> TRUE, text |-> <<>>]
    ELSE [raised |-> FALSE,
          text |-> [i \in 1..Len(b) |-> IF b[i] = 128 THEN 8364 ELSE b[i]]]

decode(encoding, b) ==
    CASE encoding = "utf-8" -> utf8_decode(b)
      [] encoding = "ISO-8859-1" -> latin1_decode(b)
      [] encoding = "Windows-1252" -> cp1252_decode(b)

\* the lines of a text, without the blank ones
RECURSIVE lines(_)
lines(text) ==
    IF text = <<>> THEN <<>>
    ELSE LET ends == {i \in 1..Len(text) : text[i] = 10}
             k == IF ends = {} THEN Len(text) + 1
                  ELSE CHOOSE i \in ends : \A j \in ends : i <= j
             rest == lines(SubSeq(text, k + 1, Len(text)))
         IN  IF k = 1 THEN rest ELSE <<SubSeq(text, 1, k - 1)>> \o rest

\* pd.read_csv(file_path, encoding=encoding): the file is opened
\* (FileNotFoundError), decoded (UnicodeDecodeError) and parsed: the first
\* line names the columns, the others are rows; a text without a line is an
\* EmptyDataError.
read_csv(f, encoding) ==
    IF ~f.exists THEN [raised |-> "FileNotFoundError", df |-> <<>>]
    ELSE LET dec == decode(encoding, f.bytes)
             ls == lines(dec.text)
         IN  IF dec.raised THEN [raised |-> "UnicodeDecodeError", df |-> <<>>]
             ELSE IF ls = <<>> THEN [raised |-> "EmptyDataError", df |-> <<>>]
             ELSE [raised |-> "",
                   df |-> [columns |-> <<Head(ls)>>,
                           rows |-> [r \in 1..Len(ls) - 1 |-> <<ls[r + 1]>>]]]

\* pd.read_excel(file_path)
read_excel(f) ==
    IF ~f.exists THEN [raised |-> "FileNotFoundError", df |-> <<>>]
    ELSE [raised |-> "", df |-> [columns |-> Columns("DSSTox"), rows |-> f.sheet]]

\* for encoding in [...], from the k-th on: what load_file does, with the
\* messages it prints
RECURSIVE try_encodings(_, _, _)
try_encodings(f, k, printed) ==
    IF k > Len(encodings)
    THEN [returned |-> FALSE, df |-> <<>>,
          log |-> Append(printed, [msg |-> "all encodings failed", encoding |-> ""])]
    ELSE LET res == read_csv(f, encodings[k])
         IN  IF res.raised = "" THEN [returned |-> TRUE, df |-> res.df, log |-> printed]
             ELSE IF res.raised = "UnicodeDecodeError"
             THEN try_encodings(f, k + 1,
                      Append(printed, [msg |-> "encoding failed",
                                       encoding |-> encodings[k]]))
             ELSE [returned |-> FALSE, df |-> <<>>,
                   log |-> Append(printed, [msg |-> "error reading file",
                                            encoding |-> encodings[k]])]

\* load_file(file_path): the record set it returns, or exit(1)
load_file(f) ==
    IF f.ext \in {"xlsx", "xls"}
    THEN LET res == read_excel(f)
         IN  IF res.raised = "" THEN [returned |-> TRUE, df |-> res.df, log |-> <<>>]
             ELSE [returned |-> FALSE, df |-> <<>>,
                   log |-> <<[msg |-> "error reading file", encoding |-> ""]>>]
    ELSE IF f.ext = "csv" THEN try_encodings(f, 1, <<>>)
    ELSE [returned |-> FALSE, df |-> <<>>,
          log |-> <<[msg |-> "unsupported file format", encoding |-> ""]>>]

\* the files load_file is called with
LoadFiles ==
    {[ext |-> "csv", exists |-> TRUE, bytes |-> b, sheet |-> <<>>] :
        b \in ByteStrings(MaxBytes)}
    \cup {[ext |-> x, exists |-> TRUE, bytes |-> <<>>, sheet |-> s] :
            x \in {"xlsx", "xls"}, s \in {NominalFrame("DSSTox"), <<>>}}
    \cup {[ext |-> x, exists |-> TRUE, bytes |-> b, sheet |-> <<>>] :
            x \in {"txt", "json"}, b \in ByteStrings(1)}
    \cup {[ext |-> x, exists |-> FALSE, bytes |-> <<>>, sheet |-> <<>>] :
            x \in {"csv", "xlsx", "txt"}}

InitLoad ==
    /\ pc = "load_file"
    /\ mode = "none"
    /\ missing = {}
    /\ file \in LoadFiles
    /\ file_paths = <<>>
    /\ data = <<>>
    /\ df_list = <<>>
    /\ ti = 1
    /\ di = 1
    /\ df = <<>>
    /\ db = EmptyDb
    /\ pending = EmptyDb
    /\ attempted = <<>>
    /\ log = <<>>
    /\ exit_status = -1
    /\ norm_calls = 0
    /\ import_calls = 0
    /\ exploded = NotExploded
    /\ deviations = 0

\* load_file returns a record set
LoadFileReturns ==
    /\ pc = "load_file"
    /\ load_file(file).returned
    /\ df' = load_file(file).df
    /\ log' = log \o load_file(file).log
    /\ pc' = "returned"
    /\ UNCHANGED <<mode, missing, file, file_paths, data, df_list, ti, di, db,
                   pending, attempted, exit_status, norm_calls, import_calls,
                   deviations, exploded>>

\* load_file ends the process: exit(1)
LoadFileExits ==
    /\ pc = "load_file"
    /\ ~load_file(file).returned
    /\ log' = log \o load_file(file).log
    /\ Exit(1)
    /\ UNCHANGED <<mode, missing, file, file_paths, data, df_list, ti, di, df, db,
                   pending, attempted, norm_calls, import_calls, deviations,
                   exploded>>

NextLoad == LoadFileReturns \/ LoadFileExits

SpecLoad == InitLoad /\ [][NextLoad]_vars

(* ============================== properties ============================= *)
IsPrefix(a, b) == Len(a) <= Len(b) /\ SubSeq(b, 1, Len(a)) = a
HasLog(m, t) == \E i \in 1..Len(log) : log[i].msg = m /\ log[i].table = t
DataTables == [k \in 1..Len(data) |-> data[k].table]
\* the load phase ended with the connection context left normally
LoadedNormally == (pc = "exited" /\ exit_status = 0) \/ pc = "returned"
\* extract_data returned to main
ExtractionSucceeded ==
    mode \in {"prod", "test"} /\ file_paths # <<>> /\ Len(data) = Len(file_paths)
HasEmptyOrNA(frame) ==
    \E r \in 1..Len(frame) : \E i \in 1..Len(frame[r]) : frame[r][i] \in {EmptyStr, NA}

\* the order the dispatch of import_table_data is written in, which is the
\* dependency order: dictionaries, DSSTox, then the fact tables
DependencyOrder ==
    <<"document_dictionary", "chemical_dictionary", "list_presence_dictionary",
      "PUC_dictionary", "functional_use_dictionary", "DSSTox", "QSUR_data",
      "functional_use_data", "product_composition_data", "list_presence_data",
      "HHE_data">>

\* C1: in a production run the load phase attempts the tables in the
\* dependency order (document_dictionary first, DSSTox sixth,
\* list_presence_dictionary before list_presence_data).
C1_DependencyOrder == mode = "prod" => IsPrefix(attempted, DependencyOrder)

\* C2: when the load phase ends normally, a table whose import raised and for
\* which no commit was reached (no success message) has no persisted row.
C2_AllOrNothing ==
    LoadedNormally =>
        \A t \in RecognizedTables :
            (HasLog("error", t) /\ ~HasLog("imported", t)) =>
                /\ db[t] = <<>>
                /\ (t = "DSSTox" => db["Identifier"] = <<>>)

\* C3: an exception of one table is caught and reported with the table name,
\* the loop goes on with the next table, every table of the mapping has been
\* attempted when the load phase ends without an exit request, and committed
\* rows are never lost.
C3_FailureIsolated ==
    [][/\ \A t \in DbTables : IsPrefix(db[t], db'[t])
       /\ (Len(log') = Len(log) + 1 /\ log'[Len(log')].msg = "error") =>
              /\ log'[Len(log')].table = data[ti].table
              /\ pc' = "load"
              /\ exit_status' = -1
              /\ ti' = ti + 1
       /\ (pc = "load" /\ pc' # "load" /\ exit_status' # 1) =>
              attempted' = DataTables]_vars

C3_Witness ==
    \E i, j, k \in 1..Len(log) :
        /\ i < j /\ j < k
        /\ log[i].msg = "imported" /\ db[log[i].table] # <<>>
        /\ log[j].msg = "error"
        /\ log[k].msg = "imported" /\ db[log[k].table] # <<>>

\* C4: at the end of a run no persisted field is the empty string or 'NA'.
C4_NoLiteralEmptyOrNA ==
    pc \in {"exited", "returned"} =>
        \A t \in DbTables : \A r \in 1..Len(db[t]) : \A i \in 1..Len(db[t][r]) :
            ~IsEmptyOrNA(db[t][r][i])

SepPositions(s) == {i \in 1..Len(s) : s[i] = "|"}
NumTokens(s) == Cardinality(SepPositions(s)) + 1
NthSep(s, j) ==
    CHOOSE i \in SepPositions(s) : Cardinality({q \in SepPositions(s) : q <= i}) = j
TokenAt(s, j) ==
    SubSeq(s, IF j = 1 THEN 1 ELSE NthSep(s, j - 1) + 1,
              IF j = NumTokens(s) THEN Len(s) ELSE NthSep(s, j) - 1)
Trimmed(s) ==
    LET solid == {i \in 1..Len(s) : s[i] # " "}
    IN  IF solid = {} THEN <<>>
        ELSE SubSeq(s, CHOOSE i \in solid : \A q \in solid : i <= q,
                       CHOOSE i \in solid : \A q \in solid : q <= i)
RECURSIVE ExtraTokens(_, _)
\* the number of additional tokens of the first r rows
ExtraTokens(frame, r) ==
    IF r = 0 THEN 0
    ELSE ExtraTokens(frame, r - 1)
         + NumTokens(frame[r][ColIndex("DSSTox", "IDENTIFIER")].s) - 1

\* C6: explode_identifiers on '|'-delimited strings returns as many substance
\* rows as it was given, each IDENTIFIER the trimmed first token and every
\* other column untouched, and one cross-reference row per additional token,
\* in order: (primary, primary, trimmed additional token).
C6_ExplodeContract ==
    pc = "exploded" =>
        LET in == data[1].dfs[1]
            id == ColIndex("DSSTox", "IDENTIFIER")
            primary(r) == Str(Trimmed(TokenAt(in[r][id].s, 1)))
        IN  /\ ~exploded.raised
            /\ Len(exploded.df) = Len(in)
            /\ \A r \in 1..Len(in) : \A i \in 1..Len(in[r]) :
                  exploded.df[r][i] = IF i = id THEN primary(r) ELSE in[r][i]
            /\ Len(exploded.identifier_df) = ExtraTokens(in, Len(in))
            /\ \A r \in 1..Len(in) : \A j \in 2..NumTokens(in[r][id].s) :
                  exploded.identifier_df[ExtraTokens(in, r - 1) + j - 1] =
                      <<primary(r), primary(r), Str(Trimmed(TokenAt(in[r][id].s, j)))>>

C6_Witness ==
    /\ pc = "exploded"
    /\ Len(data[1].dfs[1]) = 2
    /\ data[1].dfs[1][1][ColIndex("DSSTox", "IDENTIFIER")] = Str(<<" ", "5", "|">>)
    /\ Len(exploded.identifier_df) = 3
    /\ exploded.df[1][ColIndex("DSSTox", "IDENTIFIER")] = Str(<<"5">>)

\* C7: identifier explosion never raises, whatever the IDENTIFIER values of
\* the DSSTox record set (a null among them included).
C7_NullIdentifierTolerated == ~exploded.raised

\* C8: nothing is inserted before extraction has completed, every record set
\* handed to the load phase of main is non-empty, and a run that ends during
\* extraction ends with status 1 and an untouched database.
C8_ExtractionBeforeLoad ==
    /\ pc \in {"start", "parse", "extract"} =>
          db = EmptyDb /\ pending = EmptyDb /\ import_calls = 0
    /\ (mode \in {"prod", "test"} /\ import_calls > 0) =>
          /\ Len(data) = Len(file_paths)
          /\ \A k \in 1..Len(data) :
                /\ Len(data[k].dfs) = Len(file_paths[k].paths)
                /\ \A d \in 1..Len(data[k].dfs) : data[k].dfs[d] # <<>>
    /\ (pc = "exited" /\ file_paths # <<>> /\ Len(data) < Len(file_paths)) =>
          exit_status = 1 /\ db = EmptyDb /\ pending = EmptyDb /\ import_calls = 0

C8_Witness ==
    /\ pc = "exited"
    /\ exit_status = 1
    /\ Len(data) >= 1
    /\ Len(data) < Len(file_paths)

\* C9: an unrecognized table name ends the run: it is the last table
\* attempted, neither a success nor a handler message is printed for it, the
\* open transaction is rolled back and the exit status is 1.
C9_UnknownTableAborts ==
    \A k \in 1..Len(attempted) :
        attempted[k] \notin RecognizedTables =>
            /\ k = Len(attempted)
            /\ pc = "exited"
            /\ exit_status = 1
            /\ ~HasLog("imported", attempted[k])
            /\ ~HasLog("error", attempted[k])
            /\ pending = EmptyDb

C9_Witness ==
    /\ pc = "exited"
    /\ Len(attempted) = 2
    /\ attempted[2] = UnknownTable
    /\ db[attempted[1]] # <<>>
    /\ Len(data) > 2

\* the record sets import_data_to_DB has still to hand to import_table_data
RECURSIVE RemainingFrom(_)
RemainingFrom(k) ==
    IF k > Len(data) THEN 0 ELSE Len(data[k].dfs) + RemainingFrom(k + 1)
Remaining == RemainingFrom(ti) - (di - 1)

\* C10: once extraction has succeeded in main (all its table names are
\* recognized) the exit status is never 1, the load phase is never stuck, and
\* each of its steps either consumes a record set or a table, or ends the run
\* with exit(0): the run completes with status 0, however many tables
\* logged an import error.
C10_CompletesWithZero ==
    /\ [](ExtractionSucceeded => exit_status # 1)
    /\ []((ExtractionSucceeded /\ pc = "load") => ENABLED Next)
    /\ [][(ExtractionSucceeded /\ pc = "load") =>
             \/ pc' = "load" /\ Remaining' < Remaining
             \/ pc' = "exited" /\ exit_status' = 0]_vars

C10_Witness ==
    /\ pc = "exited"
    /\ exit_status = 0
    /\ \E i \in 1..Len(log) : log[i].msg = "error"


(* ------------------------------- C11 ----------------------------------- *)
DocDate == ColIndex("document_dictionary", "doc_date")

\* a string of the form YYYY-MM-DD
IsIsoDate(c) ==
    /\ c.kind = "str"
    /\ Len(c.s) = 10
    /\ \A i \in 1..10 : IF i \in {5, 8} THEN c.s[i] = "-" ELSE IsDigit(c.s[i])

\* the patterns of the priority list that parse the trimmed value
ParsingPatterns(c) ==
    {i \in 1..Len(date_formats) : strptime(strip(c.s), date_formats[i]) # {}}

\* convert_dates keeps the rows and every column but doc_date
OnlyDateColumnChanged ==
    /\ Len(df) = Len(raw_df)
    /\ \A r \in 1..Len(df) :
          /\ Len(df[r]) = Len(raw_df[r])
          /\ \A i \in 1..Len(df[r]) : i # DocDate => df[r][i] = raw_df[r][i]

\* a value that is no string, or that no pattern parses, becomes null
UnparseableIsNull ==
    \A r \in 1..Len(df) :
        (raw_df[r][DocDate].kind # "str" \/ ParsingPatterns(raw_df[r][DocDate]) = {})
            => df[r][DocDate] = None

\* a pattern parses a string in one way only, and the result is the rendering
\* of the date the first parsing pattern reads
FirstPatternWins ==
    \A r \in 1..Len(df) :
        LET c == raw_df[r][DocDate]
        IN  (c.kind = "str" /\ ParsingPatterns(c) # {}) =>
                \E first \in ParsingPatterns(c) :
                    /\ \A i \in ParsingPatterns(c) : first <= i
                    /\ Cardinality(strptime(strip(c.s), date_formats[first])) = 1
                    /\ \E f \in strptime(strip(c.s), date_formats[first]) :
                       \E zero_pad \in BOOLEAN :
                           df[r][DocDate] = Str(strftime(f, zero_pad))

\* 01-02-2020 and 01/02/2020 are read day first
DayFirst ==
    \A r \in 1..Len(df) :
        strip(raw_df[r][DocDate].s) \in
            {<<"0", "1", "-", "0", "2", "-", "2", "0", "2", "0">>,
             <<"0", "1", "/", "0", "2", "/", "2", "0", "2", "0">>}
        => df[r][DocDate] = Str(<<"2", "0", "2", "0", "-", "0", "2", "-", "0", "1">>)

\* every result is null or a YYYY-MM-DD string
NullOrIsoDate ==
    \A r \in 1..Len(df) : df[r][DocDate] = None \/ IsIsoDate(df[r][DocDate])

\* C11: parse_date returns null or the YYYY-MM-DD rendering of the first
\* pattern of the priority list that parses the trimmed value (day first for
\* 01-02-2020 and 01/02/2020); a value that is null, not a string or parsed by
\* no pattern gives null; convert_dates changes the doc_date column only.
C11_ParseDateContract ==
    pc = "converted" =>
        /\ OnlyDateColumnChanged
        /\ UnparseableIsNull
        /\ FirstPatternWins
        /\ DayFirst
        /\ NullOrIsoDate


(* ------------------------------- C12 ----------------------------------- *)
CompColumns ==
    {ColIndex("product_composition_data", composition_columns[k]) :
        k \in 1..Len(composition_columns)}

\* a decimal number: an optional sign, digits with at most one point
WellFormedNumber(s) ==
    LET from == IF s # <<>> /\ s[1] \in {"-", "+"} THEN 2 ELSE 1
    IN  /\ \E i \in from..Len(s) : IsDigit(s[i])
        /\ \A i \in from..Len(s) : IsDigit(s[i]) \/ s[i] = "."
        /\ Cardinality({i \in from..Len(s) : s[i] = "."}) <= 1

\* the value of a well-formed number, divided by 10^shift
NumberValue(s, shift) ==
    LET neg == s[1] = "-"
        points == {i \in 1..Len(s) : s[i] = "."}
        e == IF points = {} THEN 0 ELSE Len(s) - (CHOOSE i \in points : TRUE)
    IN  normal_float((IF neg THEN -1 ELSE 1) * NumVal(SelectSeq(s, IsDigit)), e + shift)

\* what the contract gives for a composition value: a number followed by one
\* percent sign is a percentage, a number is itself, all else is null
ExpectedFloat(c) ==
    IF ~notnull(c) THEN None
    ELSE IF c.kind = "float" THEN c
    ELSE LET s == strip(c.s)
             body == strip(SubSeq(s, 1, Len(s) - 1))
         IN  IF \E i \in 1..Len(s) : s[i] = "%"
             THEN IF s[Len(s)] = "%" /\ WellFormedNumber(body)
                  THEN NumberValue(body, 2) ELSE None
             ELSE IF WellFormedNumber(s) THEN NumberValue(s, 0) ELSE None

\* C12: to_float gives null for null, the number divided by 100 for a
\* percentage, the number for a plain decimal and null for everything that is
\* not a well-formed number (abc, 4%5, %); convert_compositions applies it to
\* raw_min_comp, raw_central_comp and raw_max_comp and changes nothing else.
C12_ToFloatContract ==
    pc = "composed" =>
        /\ Len(df) = Len(raw_df)
        /\ \A r \in 1..Len(df) :
              /\ Len(df[r]) = Len(raw_df[r])
              /\ \A i \in 1..Len(df[r]) :
                    df[r][i] = IF i \in CompColumns THEN ExpectedFloat(raw_df[r][i])
                               ELSE raw_df[r][i]


(* ------------------------------- C13 ----------------------------------- *)
\* the encodings of the messages "encoding failed", in the order printed
FailedEncodings ==
    LET fails == SelectSeq(log, LAMBDA m : m.msg = "encoding failed")
    IN  [i \in 1..Len(fails) |-> fails[i].encoding]

\* load_file has returned the delimited text parsed with encoding e: the
\* encodings before e each failed to decode and were reported, in order, e
\* decodes, and nothing after e was tried
ReturnedWith(e, before) ==
    /\ pc = "returned"
    /\ FailedEncodings = before
    /\ \A i \in 1..Len(before) : decode(before[i], file.bytes).raised
    /\ ~decode(e, file.bytes).raised
    /\ df = read_csv(file, e).df

\* C13: on a delimited-text file load_file tries utf-8, ISO-8859-1 and
\* Windows-1252 in this order and returns the record set parsed with the first
\* that raises no decode error, trying none after it; when all three raise a
\* decode error, or the extension is none of .xlsx, .xls and .csv, the process
\* ends with a non-zero status and load_file does not return.
C13_LoadFileContract ==
    /\ pc = "exited" => exit_status # 0
    /\ (pc = "returned" /\ file.ext = "csv") =>
          \/ ReturnedWith("utf-8", <<>>)
          \/ ReturnedWith("ISO-8859-1", <<"utf-8">>)
          \/ ReturnedWith("Windows-1252", <<"utf-8", "ISO-8859-1">>)
    /\ (pc # "load_file" /\ file.ext = "csv" /\ file.exists
            /\ \A e \in {"utf-8", "ISO-8859-1", "Windows-1252"} :
                  decode(e, file.bytes).raised)
          => pc = "exited" /\ exit_status # 0
    /\ (pc # "load_file" /\ file.ext \notin {"xlsx", "xls", "csv"})
          => pc = "exited" /\ exit_status # 0

\* a file that is not valid utf-8 was returned as ISO-8859-1 text
C13_Witness ==
    /\ ReturnedWith("ISO-8859-1", <<"utf-8">>)
    /\ file.bytes = <<65, 10, 169>>
    /\ df = [columns |-> <<(<<65>>)>>, rows |-> << <<(<<169>>)>> >>]


(* ------------------------------- C14 ----------------------------------- *)
\* parse_file_paths has returned its mapping to main
ParseReturned == mode = "prod" /\ file_paths # <<>>

\* C14: when a required file (a DSSToxDump spreadsheet or the file of a
\* table) is absent, parse_file_paths ends the process with a non-zero status,
\* so that nothing is extracted or loaded; the mapping it returns holds every
\* required path.
C14_MissingFileAborts ==
    /\ (mode = "prod" /\ missing # {} /\ pc \notin {"start", "parse"})
          => pc = "exited" /\ exit_status # 0 /\ file_paths = <<>> /\ data = <<>>
    /\ ParseReturned => FilesOf(file_paths) = FilesOf(ProdPaths)

====
